---- MODULE Spec2Model ----
(***************************************************************************)
(* Member directory screen (members screen of the mobile chat client) and  *)
(* treasury dialog (nouns-camp).  Strings are sequences of one-character   *)
(* strings so that trim, lower-casing, concatenation and substring search  *)
(* are computed character by character.  An optional value (null or        *)
(* undefined in the source) is the empty sequence, a present value v is    *)
(* the one-element sequence <<v>>.                                         *)
(***************************************************************************)
EXTENDS Integers, Sequences, FiniteSets, TLC

VARIABLES members, me, blocked, starredUserIds, pendingInput,
          deferredPendingInput, filteredMembers,
          balances, rate, showRecentActivity, activityDayCount,
          auctionProceeds, assetsDeployed, inflight, requested, storedFor,
          avatarProps, ensName, ensAvatarUrl, nouns, avatarUrls, imports

memberVars == <<members, me, blocked, starredUserIds, pendingInput,
                deferredPendingInput, filteredMembers>>

treasuryVars == <<balances, rate, showRecentActivity, activityDayCount,
                  auctionProceeds, assetsDeployed, inflight, requested,
                  storedFor>>

avatarVars == <<avatarProps, ensName, ensAvatarUrl, nouns, avatarUrls, imports>>

vars == <<memberVars, treasuryVars, avatarVars>>

----------------------------------------------------------------------------
(* Optional values *)
None == <<>>
Some(v) == <<v>>
IsNull(o) == o = <<>>
Get(o) == o[1]

----------------------------------------------------------------------------
(* Strings *)

\* The characters used, in UTF-16 code unit order.
Alphabet == <<" ", "(", ")", ".", "0", "1", "2", "3", "A", "B", "a", "b",
              "c", "e", "l", "o", "u", "x", "y", "z">>

CharCode(c) == CHOOSE i \in 1..Len(Alphabet) : Alphabet[i] = c

LowerOf == [A |-> "a", B |-> "b"]

ToLowerChar(c) == IF c \in DOMAIN LowerOf THEN LowerOf[c] ELSE c

ToLowerCase(s) == [i \in 1..Len(s) |-> ToLowerChar(s[i])]

IsSpace(c) == c = " "

RECURSIVE TrimStart(_)
TrimStart(s) ==
  IF s # <<>> /\ IsSpace(Head(s)) THEN TrimStart(Tail(s)) ELSE s

RECURSIVE TrimEnd(_)
TrimEnd(s) ==
  IF s # <<>> /\ IsSpace(s[Len(s)]) THEN TrimEnd(SubSeq(s, 1, Len(s) - 1))
  ELSE s

Trim(s) == TrimEnd(TrimStart(s))

\* Index (from 0) of the first occurrence of q in s, -1 when there is none.
IndexOf(s, q) ==
  LET hits == {i \in 0..(Len(s) - Len(q)) : SubSeq(s, i + 1, i + Len(q)) = q}
  IN IF hits = {} THEN -1
     ELSE CHOOSE i \in hits : \A j \in hits : i <= j

Includes(s, q) == IndexOf(s, q) # -1

\* Three-way lexicographic comparison by code unit.
RECURSIVE CompareStrings(_, _)
CompareStrings(a, b) ==
  IF a = <<>> /\ b = <<>> THEN 0
  ELSE IF a = <<>> THEN -1
  ELSE IF b = <<>> THEN 1
  ELSE IF CharCode(Head(a)) < CharCode(Head(b)) THEN -1
  ELSE IF CharCode(Head(a)) > CharCode(Head(b)) THEN 1
  ELSE CompareStrings(Tail(a), Tail(b))

YouSuffix == <<" ", "(", "y", "o", "u", ")">>

----------------------------------------------------------------------------
(* Members screen *)

MaxMembers == 3

Users ==
  { [id |-> 1, displayName |-> <<"B", "o">>, ensName |-> None,
     walletAddress |-> <<"0", "x", "b", "1">>],
    [id |-> 2, displayName |-> <<"a", "l">>, ensName |-> None,
     walletAddress |-> <<"0", "x", "a", "2">>],
    [id |-> 3, displayName |-> <<"A", "l">>,
     ensName |-> Some(<<"b", "o", ".", "e">>),
     walletAddress |-> <<"0", "x", "c", "3">>] }

UserIds == {u.id : u \in Users}

Rosters ==
  {r \in UNION {[1..n -> Users] : n \in 0..MaxMembers} :
     \A i, j \in 1..Len(r) : i # j => r[i].id # r[j].id}

Inputs == { <<>>, <<" ", "b">>, <<"B", "o", " ">>, <<"y", "o">>,
            <<"a", "2">> }

\* Shades.utils.array.sort: a stable sort of a copy of the list.  The
\* comparator is a function on pairs of list elements.
RECURSIVE InsertSorted(_, _, _)
InsertSorted(cmp, x, list) ==
  IF list = <<>> THEN <<x>>
  ELSE IF cmp[<<x, Head(list)>>] < 0 THEN <<x>> \o list
  ELSE <<Head(list)>> \o InsertSorted(cmp, x, Tail(list))

Elements(list) == {list[i] : i \in 1..Len(list)}

RECURSIVE sort(_, _)
sort(cmp, list) ==
  IF list = <<>> THEN <<>>
  ELSE InsertSorted(cmp, list[Len(list)],
                    sort(cmp, SubSeq(list, 1, Len(list) - 1)))

\* The comparison made by the default comparator: case-insensitive display
\* name.
CompareUsers(u1, u2) ==
  CompareStrings(ToLowerCase(u1.displayName), ToLowerCase(u2.displayName))

\* Shades.utils.user.createDefaultComparator, for the users of a list.
createUserDefaultComparator(users) ==
  [p \in Elements(users) \X Elements(users) |-> CompareUsers(p[1], p[2])]

\* Does the entry match the (lower-cased) query on one of its three fields?
UserMatches(u, q) ==
  \/ Includes(ToLowerCase(u.displayName), q)
  \/ (~IsNull(u.ensName) /\ Includes(ToLowerCase(Get(u.ensName)), q))
  \/ Includes(ToLowerCase(u.walletAddress), q)

MatchIndex(u, q) ==
  LET idx == { IndexOf(ToLowerCase(u.displayName), q),
               IF IsNull(u.ensName) THEN -1
               ELSE IndexOf(ToLowerCase(Get(u.ensName)), q),
               IndexOf(ToLowerCase(u.walletAddress), q) } \ {-1}
  IN IF idx = {} THEN -1 ELSE CHOOSE i \in idx : \A j \in idx : i <= j

\* Shades.utils.user.search: the matching users, earliest match first.
searchUsers(users, rawQuery) ==
  LET q == ToLowerCase(Trim(rawQuery))
      hits == SelectSeq(users, LAMBDA u : UserMatches(u, q))
      byRelevance ==
        [p \in Elements(hits) \X Elements(hits) |->
           IF MatchIndex(p[1], q) < MatchIndex(p[2], q) THEN -1
           ELSE IF MatchIndex(p[1], q) > MatchIndex(p[2], q) THEN 1 ELSE 0]
  IN sort(byRelevance, hits)

\* Annotate with the blocked check ahead of the self check.
Annotate_BlockedFirst(m, meId, blockedIds, starredIds) ==
  LET base == [id |-> m.id, displayName |-> m.displayName,
               ensName |-> m.ensName, walletAddress |-> m.walletAddress,
               isBlocked |-> FALSE, isStarred |-> FALSE]
  IN IF m.id \in blockedIds THEN [base EXCEPT !.isBlocked = TRUE]
     ELSE IF m.id = meId
       THEN [base EXCEPT !.displayName = m.displayName \o YouSuffix]
     ELSE IF m.id \in starredIds THEN [base EXCEPT !.isStarred = TRUE]
     ELSE base

\* Annotate with independent (not short-circuiting) flag checks.
Annotate_BothFlags(m, meId, blockedIds, starredIds) ==
  LET base == [id |-> m.id, displayName |-> m.displayName,
               ensName |-> m.ensName, walletAddress |-> m.walletAddress,
               isBlocked |-> FALSE, isStarred |-> FALSE]
  IN IF m.id = meId
       THEN [base EXCEPT !.displayName = m.displayName \o YouSuffix]
     ELSE [base EXCEPT !.isBlocked = m.id \in blockedIds,
                       !.isStarred = m.id \in starredIds]

\* The annotation of one roster member (the map callback).
Annotate(m, meId, blockedIds, starredIds) ==
  LET base == [id |-> m.id, displayName |-> m.displayName,
               ensName |-> m.ensName, walletAddress |-> m.walletAddress,
               isBlocked |-> FALSE, isStarred |-> FALSE]
  IN IF m.id = meId
       THEN [base EXCEPT !.displayName = m.displayName \o YouSuffix]
     ELSE IF m.id \in blockedIds THEN [base EXCEPT !.isBlocked = TRUE]
     ELSE IF m.id \in starredIds THEN [base EXCEPT !.isStarred = TRUE]
     ELSE base

unfilteredMembers(roster, meId, blockedIds, starredIds) ==
  [i \in 1..Len(roster) |-> Annotate(roster[i], meId, blockedIds, starredIds)]

ShortQueryLimit == 1

\* The useMemo body with the short-query test written as length < 1.
ComputeFilteredMembers_Strict(deferred, roster, meId, blockedIds, starredIds) ==
  LET query == Trim(deferred)
      annotated == unfilteredMembers(roster, meId, blockedIds, starredIds)
  IN IF Len(query) < ShortQueryLimit
       THEN sort(createUserDefaultComparator(annotated), annotated)
     ELSE searchUsers(annotated, query)

\* The useMemo body with the short-query test applied to the untrimmed value.
ComputeFilteredMembers_Untrimmed(deferred, roster, meId, blockedIds, starredIds) ==
  LET query == Trim(deferred)
      annotated == unfilteredMembers(roster, meId, blockedIds, starredIds)
  IN IF Len(deferred) <= ShortQueryLimit + 1
       THEN sort(createUserDefaultComparator(annotated), annotated)
     ELSE searchUsers(annotated, query)

\* The useMemo body computing the displayed list.
ComputeFilteredMembers(deferred, roster, meId, blockedIds, starredIds) ==
  LET query == Trim(deferred)
      annotated == unfilteredMembers(roster, meId, blockedIds, starredIds)
  IN IF Len(query) <= ShortQueryLimit
       THEN sort(createUserDefaultComparator(annotated), annotated)
     ELSE searchUsers(annotated, query)

----------------------------------------------------------------------------
(* Arbitrary-precision naturals (BigInt) as decimal digit sequences, most    *)
(* significant digit first, without leading zeros.                         *)

RECURSIVE Digits(_)
Digits(n) == IF n < 10 THEN <<n>> ELSE Digits(n \div 10) \o <<n % 10>>

RECURSIVE Normalize(_)
Normalize(d) ==
  IF Len(d) > 1 /\ Head(d) = 0 THEN Normalize(Tail(d)) ELSE d

\* d * 10 ** k
BigMulPow10(d, k) == IF d = <<0>> THEN d ELSE d \o [i \in 1..k |-> 0]

RECURSIVE LongDiv(_, _, _, _)
LongDiv(d, r, rem, q) ==
  IF d = <<>> THEN q
  ELSE LET cur == rem * 10 + Head(d)
       IN LongDiv(Tail(d), r, cur % r, q \o <<cur \div r>>)

\* d / r for a positive r, truncating.
BigDiv(d, r) == Normalize(LongDiv(d, r, 0, <<>>))

----------------------------------------------------------------------------
(* Treasury dialog *)

UsdcToEthExponent == 23

\* The converter dividing before it scales.
convertUsdcToEth_DivideFirst(r, usdc) ==
  BigMulPow10(BigDiv(Digits(usdc), r), UsdcToEthExponent)

\* The function returned by useChainlinkUsdcToEthConverter for a resolved rate.
convertUsdcToEth(r, usdc) ==
  BigDiv(BigMulPow10(Digits(usdc), UsdcToEthExponent), r)

Eth == <<"e", "t", "h">>
Weth == <<"w", "e", "t", "h">>
Steth == <<"s", "t", "e", "t", "h">>
Usdc == <<"u", "s", "d", "c">>
Nouns == <<"n", "o", "u", "n", "s">>
Dai == <<"d", "a", "i">>

EndsWith(s, suffix) ==
  /\ Len(s) >= Len(suffix)
  /\ SubSeq(s, Len(s) - Len(suffix) + 1, Len(s)) = suffix

\* One requested-asset transfer of a parsed transaction list.
Transfer(c, a, t) == [currency |-> c, amount |-> a, tokens |-> t]

TransferKinds ==
  { Transfer(Eth, 2, <<>>), Transfer(Steth, 1, <<>>), Transfer(Usdc, 1, <<>>),
    Transfer(Nouns, 0, <<7>>), Transfer(Dai, 1, <<>>) }

MaxTransfers == 3

TransferLists == UNION {[1..n -> TransferKinds] : n \in 0..MaxTransfers}

\* utils/transactions.js extractAmounts: one entry per currency tag, the
\* amounts summed and the token ids collected, in order of first appearance.
RECURSIVE getRequestedAssets(_)
getRequestedAssets(transfers) ==
  IF transfers = <<>> THEN <<>>
  ELSE LET front == getRequestedAssets(SubSeq(transfers, 1, Len(transfers) - 1))
           t == transfers[Len(transfers)]
       IN IF \E i \in 1..Len(front) : front[i].currency = t.currency
            THEN [i \in 1..Len(front) |->
                    IF front[i].currency = t.currency
                      THEN [front[i] EXCEPT !.amount = @ + t.amount,
                                            !.tokens = @ \o t.tokens]
                    ELSE front[i]]
          ELSE front \o <<t>>

\* The reducer callback folding only the exact "eth" tag.
MergeAsset_ExactEth(assets, asset) ==
  IF asset.currency = Eth
    THEN LET found == {i \in 1..Len(assets) : assets[i].currency = Eth}
             ethAmount ==
               IF found = {} THEN 0
               ELSE assets[CHOOSE i \in found : \A j \in found : i <= j].amount
         IN <<[currency |-> Eth, amount |-> ethAmount + asset.amount,
               tokens |-> <<>>]>>
            \o SelectSeq(assets, LAMBDA a : a.currency # Eth)
  ELSE assets \o <<asset>>

\* The reducer callback keeping the previous eth entry next to the new one.
MergeAsset_KeepOld(assets, asset) ==
  IF EndsWith(asset.currency, Eth)
    THEN LET found == {i \in 1..Len(assets) : assets[i].currency = Eth}
             ethAmount ==
               IF found = {} THEN 0
               ELSE assets[CHOOSE i \in found : \A j \in found : i <= j].amount
         IN <<[currency |-> Eth, amount |-> ethAmount + asset.amount,
               tokens |-> <<>>]>> \o assets
  ELSE assets \o <<asset>>

\* The reducer callback of useAssetsDeployed.
MergeAsset(assets, asset) ==
  IF EndsWith(asset.currency, Eth)
    THEN LET found == {i \in 1..Len(assets) : assets[i].currency = Eth}
             ethAmount ==
               IF found = {} THEN 0
               ELSE assets[CHOOSE i \in found : \A j \in found : i <= j].amount
         IN <<[currency |-> Eth, amount |-> ethAmount + asset.amount,
               tokens |-> <<>>]>>
            \o SelectSeq(assets, LAMBDA a : a.currency # Eth)
  ELSE assets \o <<asset>>

RECURSIVE ReduceAssets(_, _)
ReduceAssets(acc, list) ==
  IF list = <<>> THEN acc
  ELSE ReduceAssets(MergeAsset(acc, Head(list)), Tail(list))

\* The value passed to setAssets for one subgraph response.
MergedAssets(transfers) == ReduceAssets(<<>>, getRequestedAssets(transfers))

RECURSIVE SumAmounts(_)
SumAmounts(auctions) ==
  IF auctions = <<>> THEN 0 ELSE Head(auctions) + SumAmounts(Tail(auctions))

AuctionLists == { <<>>, <<2, 1>> }

Sources == { "treasuryEth", "daoProxyEth", "tokenBuyerEth", "treasuryUsdc",
             "treasuryWeth", "treasuryReth", "treasurySteth",
             "treasuryWsteth", "forkEscrowNouns", "treasuryNouns" }

\* The rows of the asset overview list, in source order.
OverviewRows ==
  << [label |-> "ETH", formatting |-> "eth", source |-> "treasuryEth"],
     [label |-> "stETH", formatting |-> "eth", source |-> "treasurySteth"],
     [label |-> "USDC", formatting |-> "usdc", source |-> "treasuryUsdc"],
     [label |-> "rETH", formatting |-> "eth", source |-> "treasuryReth"],
     [label |-> "wETH", formatting |-> "eth", source |-> "treasuryWeth"],
     [label |-> "wstETH", formatting |-> "eth", source |-> "treasuryWsteth"],
     [label |-> "Nouns", formatting |-> "count", source |-> "treasuryNouns"] >>

\* The optional "(~ x ETH)" hint next to a USDC amount.
UsdcHint(amount) ==
  IF IsNull(rate) THEN None ELSE Some(convertUsdcToEth(Get(rate), amount))

\* The overview row showing zero for an unresolved amount.
RenderOverviewRow_ZeroDefault(row) ==
  LET amount == balances[row.source]
  IN [label |-> row.label,
      value |-> IF IsNull(amount) THEN Some(0) ELSE amount,
      hint |-> IF ~IsNull(amount) /\ row.formatting = "usdc"
                 THEN UsdcHint(Get(amount)) ELSE None]

\* One <dt>/<dd> pair of the asset overview.
RenderOverviewRow(row) ==
  LET amount == balances[row.source]
  IN [label |-> row.label,
      value |-> amount,
      hint |-> IF ~IsNull(amount) /\ row.formatting = "usdc"
                 THEN UsdcHint(Get(amount)) ELSE None]

KnownCurrencies == {Eth, Usdc, Nouns}

\* The switch with a default case that renders nothing.
AssetThrows_Silent(asset) == FALSE

\* The switch of the assets-deployed list reaches its default case.
AssetThrows(asset) == asset.currency \notin KnownCurrencies

\* One <li> of the assets-deployed list.
RenderAsset(asset) ==
  [currency |-> asset.currency,
   value |-> IF asset.currency = Nouns THEN Len(asset.tokens)
             ELSE asset.amount,
   hint |-> IF asset.currency = Usdc THEN UsdcHint(asset.amount) ELSE None]

\* The rows of the "Other contracts" list.
OtherRows ==
  << [label |-> "Token Buyer", source |-> "tokenBuyerEth"],
     [label |-> "DAO Proxy", source |-> "daoProxyEth"],
     [label |-> "Fork Escrow", source |-> "forkEscrowNouns"] >>

RenderOther ==
  LET shown == SelectSeq(OtherRows, LAMBDA r : ~IsNull(balances[r.source]))
  IN [i \in 1..Len(shown) |->
        [label |-> shown[i].label, value |-> balances[shown[i].source]]]

\* The activity section rendered without looking at the feature flag.
RenderActivity_Ungated ==
  Some([days |-> activityDayCount,
        proceeds |-> auctionProceeds,
        assets |-> IF IsNull(assetsDeployed) THEN None
                   ELSE Some([i \in 1..Len(Get(assetsDeployed)) |->
                                RenderAsset(Get(assetsDeployed)[i])])])

\* The activity section: present only behind the feature flag.
RenderActivity ==
  IF ~showRecentActivity THEN None
  ELSE Some([days |-> activityDayCount,
             proceeds |-> auctionProceeds,
             assets |-> IF IsNull(assetsDeployed) THEN None
                        ELSE Some([i \in 1..Len(Get(assetsDeployed)) |->
                                     RenderAsset(Get(assetsDeployed)[i])])])

\* Rendering throws when a displayed assets-deployed entry is unhandled.
RenderThrows ==
  /\ showRecentActivity
  /\ ~IsNull(assetsDeployed)
  /\ \E i \in 1..Len(Get(assetsDeployed)) : AssetThrows(Get(assetsDeployed)[i])

\* What the Content component renders in the current state.
View ==
  IF RenderThrows
    THEN [error |-> TRUE, overview |-> <<>>, activity |-> None,
          other |-> <<>>]
  ELSE [error |-> FALSE,
        overview |-> [i \in 1..Len(OverviewRows) |->
                        RenderOverviewRow(OverviewRows[i])],
        activity |-> RenderActivity,
        other |-> RenderOther]

DayCounts == {30, 7}
Rates == {3, 7}
UsdcAmounts == {0, 1, 25}
BalanceAmounts == {5}

AmountsOf(s) == IF s = "treasuryUsdc" THEN UsdcAmounts ELSE BalanceAmounts

Request(hook, days) == [hook |-> hook, days |-> days]

\* The two fetches issued by the useFetch effects for a dependency key.
FetchesFor(days) == {Request("auctions", days), Request("proposals", days)}

Unresolved == [s \in Sources |-> None]

\* The balances already resolved while the activity fetches are followed.
Snapshot ==
  [Unresolved EXCEPT !["treasuryEth"] = Some(5),
                     !["treasurySteth"] = Some(6),
                     !["treasuryUsdc"] = Some(25)]

\* The dependency key (day count) of the request whose result each hook
\* holds in its state; nothing before the first setProceeds / setAssets.
NothingStored == [auctions |-> None, proposals |-> None]

TreasuryIdle ==
  /\ balances = Unresolved
  /\ rate = None
  /\ showRecentActivity = FALSE
  /\ activityDayCount = 30
  /\ auctionProceeds = None
  /\ assetsDeployed = None
  /\ inflight = FetchesFor(30)
  /\ requested = <<>>
  /\ storedFor = NothingStored

\* The account avatar before anything about the account is known.
AvatarIdle ==
  /\ avatarProps = [ensOnly |-> FALSE, placeholder |-> TRUE,
                    maxStackCount |-> 2, fallbackImageUrl |-> None]
  /\ ensName = None
  /\ ensAvatarUrl = None
  /\ nouns = None
  /\ avatarUrls = None
  /\ imports = {}

MembersIdle ==
  /\ members = <<>>
  /\ me = 1
  /\ blocked = {}
  /\ starredUserIds = {}
  /\ pendingInput = <<>>
  /\ deferredPendingInput = <<>>
  /\ filteredMembers = <<>>

\* A balance read resolves.
ResolveBalance(s, v) ==
  /\ IsNull(balances[s])
  /\ balances' = [balances EXCEPT ![s] = Some(v)]
  /\ UNCHANGED <<rate, showRecentActivity, activityDayCount, auctionProceeds,
                 assetsDeployed, inflight, requested, storedFor>>
  /\ UNCHANGED memberVars
  /\ UNCHANGED avatarVars

\* The price feed read resolves.
ResolveRate(r) ==
  /\ IsNull(rate)
  /\ rate' = Some(r)
  /\ UNCHANGED <<balances, showRecentActivity, activityDayCount,
                 auctionProceeds, assetsDeployed, inflight, requested,
                 storedFor>>
  /\ UNCHANGED memberVars
  /\ UNCHANGED avatarVars

\* The "timeframe" search parameter changes: both effects run again.
ChangeTimeframe(days) ==
  /\ days # activityDayCount
  /\ activityDayCount' = days
  /\ inflight' = inflight \cup FetchesFor(days)
  /\ UNCHANGED <<balances, rate, showRecentActivity, auctionProceeds,
                 assetsDeployed, requested, storedFor>>
  /\ UNCHANGED memberVars
  /\ UNCHANGED avatarVars

\* The auctions query of useAuctionProceeds returns.
AuctionsResponse(req, auctions) ==
  /\ req \in inflight
  /\ req.hook = "auctions"
  /\ Len(auctions) <= req.days
  /\ auctionProceeds' = Some(SumAmounts(auctions))
  /\ storedFor' = [storedFor EXCEPT !.auctions = Some(req.days)]
  /\ inflight' = inflight \ {req}
  /\ UNCHANGED <<balances, rate, showRecentActivity, activityDayCount,
                 assetsDeployed, requested>>
  /\ UNCHANGED memberVars
  /\ UNCHANGED avatarVars

\* The proposals query of useAssetsDeployed returns.
ProposalsResponse(req, transfers) ==
  /\ req \in inflight
  /\ req.hook = "proposals"
  /\ requested' = transfers
  /\ assetsDeployed' = Some(MergedAssets(transfers))
  /\ storedFor' = [storedFor EXCEPT !.proposals = Some(req.days)]
  /\ inflight' = inflight \ {req}
  /\ UNCHANGED <<balances, rate, showRecentActivity, activityDayCount,
                 auctionProceeds>>
  /\ UNCHANGED memberVars
  /\ UNCHANGED avatarVars

BalancesInit ==
  /\ MembersIdle
  /\ AvatarIdle
  /\ balances = Unresolved
  /\ rate = None
  /\ showRecentActivity \in BOOLEAN
  /\ activityDayCount = 30
  /\ auctionProceeds = None
  /\ assetsDeployed = None
  /\ inflight = FetchesFor(30)
  /\ requested = <<>>
  /\ storedFor = NothingStored

BalancesNext ==
  \/ \E s \in Sources : \E v \in AmountsOf(s) : ResolveBalance(s, v)
  \/ \E r \in Rates : ResolveRate(r)

BalancesSpec == BalancesInit /\ [][BalancesNext]_vars

ActivityInit ==
  /\ MembersIdle
  /\ AvatarIdle
  /\ balances = Snapshot
  /\ rate = None
  /\ showRecentActivity \in BOOLEAN
  /\ activityDayCount = 30
  /\ auctionProceeds = None
  /\ assetsDeployed = None
  /\ inflight = FetchesFor(30)
  /\ requested = <<>>
  /\ storedFor = NothingStored

\* The fetches of the default timeframe resolve; re-fetches are followed in
\* RaceSpec.
ActivityNext ==
  \/ \E r \in Rates : ResolveRate(r)
  \/ \E req \in inflight : \E a \in AuctionLists : AuctionsResponse(req, a)
  \/ \E req \in inflight : \E t \in TransferLists : ProposalsResponse(req, t)

ActivitySpec == ActivityInit /\ [][ActivityNext]_vars

\* The responses followed while requests race: at most one transfer each.
RaceTransferLists == {t \in TransferLists : Len(t) <= 1}

RaceInit ==
  /\ MembersIdle
  /\ AvatarIdle
  /\ balances = Snapshot
  /\ rate = None
  /\ showRecentActivity \in BOOLEAN
  /\ activityDayCount = 30
  /\ auctionProceeds = None
  /\ assetsDeployed = None
  /\ inflight = FetchesFor(30)
  /\ requested = <<>>
  /\ storedFor = NothingStored

\* The timeframe changes while earlier requests are still in flight, and the
\* responses arrive in any order.
RaceNext ==
  \/ \E d \in DayCounts : ChangeTimeframe(d)
  \/ \E req \in inflight : \E a \in AuctionLists : AuctionsResponse(req, a)
  \/ \E req \in inflight :
       \E t \in RaceTransferLists : ProposalsResponse(req, t)

RaceSpec == RaceInit /\ [][RaceNext]_vars

----------------------------------------------------------------------------
\* The list recomputed from the raw input instead of the deferred value.
Render_FromRawInput ==
  filteredMembers' = ComputeFilteredMembers(pendingInput', members', me',
                                            blocked', starredUserIds')

Render ==
  filteredMembers' = ComputeFilteredMembers(deferredPendingInput', members',
                                            me', blocked', starredUserIds')

MembersInit ==
  /\ members \in Rosters
  /\ me \in UserIds
  /\ blocked = {}
  /\ starredUserIds = {}
  /\ pendingInput = <<>>
  /\ deferredPendingInput = <<>>
  /\ filteredMembers =
       ComputeFilteredMembers(<<>>, members, me, {}, {})
  /\ TreasuryIdle
  /\ AvatarIdle

\* onChangeText={setPendingInput}
SetPendingInput(text) ==
  /\ text # pendingInput
  /\ pendingInput' = text
  /\ UNCHANGED <<members, me, blocked, starredUserIds, deferredPendingInput>>
  /\ UNCHANGED treasuryVars
  /\ UNCHANGED avatarVars
  /\ Render

\* useDeferredValue hands the latest input to the background re-render.
DeferredCommit ==
  /\ deferredPendingInput # pendingInput
  /\ deferredPendingInput' = pendingInput
  /\ UNCHANGED <<members, me, blocked, starredUserIds, pendingInput>>
  /\ UNCHANGED treasuryVars
  /\ UNCHANGED avatarVars

\* The deferred value catches up with the latest input.
DeferredUpdate ==
  /\ DeferredCommit
  /\ Render

\* The store's blocked predicate changes for one user.
ToggleBlocked(id) ==
  /\ blocked' = IF id \in blocked THEN blocked \ {id} ELSE blocked \cup {id}
  /\ UNCHANGED <<members, me, starredUserIds, pendingInput,
                 deferredPendingInput>>
  /\ UNCHANGED treasuryVars
  /\ UNCHANGED avatarVars
  /\ Render

\* The store's starred id list changes for one user.
ToggleStarred(id) ==
  /\ starredUserIds' = IF id \in starredUserIds THEN starredUserIds \ {id}
                       ELSE starredUserIds \cup {id}
  /\ UNCHANGED <<members, me, blocked, pendingInput, deferredPendingInput>>
  /\ UNCHANGED treasuryVars
  /\ UNCHANGED avatarVars
  /\ Render

MembersNext ==
  \/ \E text \in Inputs : SetPendingInput(text)
  \/ DeferredUpdate
  \/ \E id \in UserIds : ToggleBlocked(id)
  \/ \E id \in UserIds : ToggleStarred(id)

MembersSpec == MembersInit /\ [][MembersNext]_vars

\* React runs the pending low-priority re-render once nothing more urgent is
\* left to do, so the deferred update cannot stay pending for ever.  (Every
\* DeferredCommit step of MembersNext is a DeferredUpdate step.)
DeferSpec ==
  MembersInit /\ [][MembersNext]_vars /\ WF_deferredPendingInput(DeferredCommit)

----------------------------------------------------------------------------
(* Account avatar (NounsAccountAvatar) *)

MaxNouns == 3
MaxStackCount == 3

Seeds == {1, 2}

\* The nouns an account can represent, as the list of their seeds.
NounLists == UNION {[1..n -> Seeds] : n \in 0..MaxNouns}

EnsAvatarUrls == { <<"ens", 1>> }
FallbackUrls == { <<"fallback", 1>> }

AvatarPropsSet ==
  [ensOnly : BOOLEAN, placeholder : BOOLEAN,
   maxStackCount : 1..MaxStackCount,
   fallbackImageUrl : {None} \cup {Some(u) : u \in FallbackUrls}]

\* @shades/common/nouns buildDataUriFromSeed: the image of one seed.
buildDataUriFromSeed(seed) == <<"noun", seed>>

\* Shades.utils.array.reverse
reverse(list) == [i \in 1..Len(list) |-> list[Len(list) + 1 - i]]

Min(a, b) == IF a <= b THEN a ELSE b

\* nouns?.map((n) => n.seed), the fetched seeds being disabled
nounSeeds == nouns

\* The enabled option NounsAccountAvatar passes to useNounAvatars.
AvatarsEnabled(props, ensUrl) == ~props.ensOnly /\ IsNull(ensUrl)

\* The imports the useNounAvatars effect starts when its dependencies
\* (enabled, seeds == null) become the given ones.
EffectImports(enabled, seeds) ==
  IF ~enabled \/ IsNull(seeds) THEN {} ELSE {Get(seeds)}

\* AvatarStack: the first count urls, last one first.
AvatarStack(urls, maxCount) ==
  LET count == Min(Len(urls), maxCount)
  IN reverse(SubSeq(urls, 1, count))

\* The stack rendered although an ENS avatar is there.
AvatarView_StackOverEns ==
  IF ~IsNull(avatarUrls) /\ Len(Get(avatarUrls)) > 1
    THEN [kind |-> "stack", url |-> None,
          urls |-> AvatarStack(Get(avatarUrls), avatarProps.maxStackCount)]
  ELSE LET nounAvatarUrl ==
             IF IsNull(avatarUrls) \/ Get(avatarUrls) = <<>> THEN None
             ELSE Some(Get(avatarUrls)[1])
           imageUrl ==
             IF ~IsNull(ensAvatarUrl) THEN ensAvatarUrl
             ELSE IF ~IsNull(nounAvatarUrl) THEN nounAvatarUrl
             ELSE avatarProps.fallbackImageUrl
       IN IF ~avatarProps.placeholder /\ IsNull(imageUrl)
            THEN [kind |-> "none", url |-> None, urls |-> <<>>]
          ELSE [kind |-> "avatar", url |-> imageUrl, urls |-> <<>>]

\* What NounsAccountAvatar renders in the current state.
AvatarView ==
  IF IsNull(ensAvatarUrl) /\ ~IsNull(avatarUrls) /\ Len(Get(avatarUrls)) > 1
    THEN [kind |-> "stack", url |-> None,
          urls |-> AvatarStack(Get(avatarUrls), avatarProps.maxStackCount)]
  ELSE LET nounAvatarUrl ==
             IF IsNull(avatarUrls) \/ Get(avatarUrls) = <<>> THEN None
             ELSE Some(Get(avatarUrls)[1])
           imageUrl ==
             IF ~IsNull(ensAvatarUrl) THEN ensAvatarUrl
             ELSE IF ~IsNull(nounAvatarUrl) THEN nounAvatarUrl
             ELSE avatarProps.fallbackImageUrl
       IN IF ~avatarProps.placeholder /\ IsNull(imageUrl)
            THEN [kind |-> "none", url |-> None, urls |-> <<>>]
          ELSE [kind |-> "avatar", url |-> imageUrl, urls |-> <<>>]

AvatarInit ==
  /\ MembersIdle
  /\ TreasuryIdle
  /\ avatarProps \in AvatarPropsSet
  /\ ensName = None
  /\ ensAvatarUrl = None
  /\ nouns = None
  /\ avatarUrls = None
  /\ imports = {}

\* useEnsName resolves; the ENS avatar query becomes enabled.
ResolveEnsName ==
  /\ IsNull(ensName)
  /\ ensName' = Some("name")
  /\ UNCHANGED <<avatarProps, ensAvatarUrl, nouns, avatarUrls, imports>>
  /\ UNCHANGED <<memberVars, treasuryVars>>

\* useEnsAvatar resolves: the noun avatars are disabled from now on.
ResolveEnsAvatar(url) ==
  /\ ~IsNull(ensName)
  /\ IsNull(ensAvatarUrl)
  /\ ensAvatarUrl' = Some(url)
  /\ imports' = imports \cup
       (IF AvatarsEnabled(avatarProps, ensAvatarUrl)
             = AvatarsEnabled(avatarProps, ensAvatarUrl')
          THEN {}
        ELSE EffectImports(AvatarsEnabled(avatarProps, ensAvatarUrl'),
                           nounSeeds))
  /\ UNCHANGED <<avatarProps, ensName, nouns, avatarUrls>>
  /\ UNCHANGED <<memberVars, treasuryVars>>

\* useNounsRepresented delivers the account's nouns: seeds == null changes
\* and the effect of useNounAvatars runs.
ResolveNouns(list) ==
  /\ IsNull(nouns)
  /\ nouns' = Some(list)
  /\ imports' = imports \cup
       EffectImports(AvatarsEnabled(avatarProps, ensAvatarUrl), nouns')
  /\ UNCHANGED <<avatarProps, ensName, ensAvatarUrl, avatarUrls>>
  /\ UNCHANGED <<memberVars, treasuryVars>>

\* The dynamic import resolves and the urls of the captured seeds are stored.
ImportResolved(seeds) ==
  /\ seeds \in imports
  /\ imports' = imports \ {seeds}
  /\ avatarUrls' =
       Some([i \in 1..Len(seeds) |-> buildDataUriFromSeed(seeds[i])])
  /\ UNCHANGED <<avatarProps, ensName, ensAvatarUrl, nouns>>
  /\ UNCHANGED <<memberVars, treasuryVars>>

AvatarNext ==
  \/ ResolveEnsName
  \/ \E url \in EnsAvatarUrls : ResolveEnsAvatar(url)
  \/ \E list \in NounLists : ResolveNouns(list)
  \/ \E seeds \in imports : ImportResolved(seeds)

AvatarSpec == AvatarInit /\ [][AvatarNext]_vars

----------------------------------------------------------------------------
(* Properties of the members screen *)

Query == Trim(deferredPendingInput)

ListedIds == {filteredMembers[j].id : j \in 1..Len(filteredMembers)}

\* The roster member an entry of the displayed list was made from.
RosterMember(entry) ==
  CHOOSE m \in {members[i] : i \in 1..Len(members)} : m.id = entry.id

FromRoster ==
  \A j \in 1..Len(filteredMembers) :
    \E i \in 1..Len(members) : members[i].id = filteredMembers[j].id

\* C1: with a trimmed deferred query of length <= 1 the displayed list holds
\* every roster member exactly once and is ordered by the default comparator.
C1_ShortQueryListsEveryMemberSorted ==
  Len(Query) <= 1 =>
    /\ Len(filteredMembers) = Len(members)
    /\ \A i \in 1..Len(members) :
         Cardinality({j \in 1..Len(filteredMembers) :
                        filteredMembers[j].id = members[i].id}) = 1
    /\ \A i, j \in 1..Len(filteredMembers) :
         i < j => CompareUsers(filteredMembers[i], filteredMembers[j]) <= 0

\* A one-character query (after trimming) over a roster the sort reordered.
C1_Witness ==
  /\ Len(Query) = 1
  /\ Len(deferredPendingInput) > 1
  /\ Len(members) >= 2
  /\ Len(filteredMembers) = Len(members)
  /\ filteredMembers[1].id # members[1].id

\* C2 as stated: with a trimmed query of length >= 2 a roster member is
\* listed exactly when its own display name, ENS name or wallet address
\* matches the query.
C2_ListedIffRosterFieldsMatch ==
  Len(Query) >= 2 =>
    /\ FromRoster
    /\ \A i \in 1..Len(members) :
         members[i].id \in ListedIds
           <=> UserMatches(members[i], ToLowerCase(Query))

\* C2 amended: with a trimmed query of length >= 2 a roster member is listed
\* exactly when its displayed name (the viewer's carries the " (you)"
\* suffix), ENS name or wallet address matches the query.
C2_ListedIffDisplayedFieldsMatch ==
  Len(Query) >= 2 =>
    /\ FromRoster
    /\ \A i \in 1..Len(members) :
         members[i].id \in ListedIds
           <=> UserMatches(
                 [members[i] EXCEPT !.displayName =
                    IF members[i].id = me THEN @ \o YouSuffix ELSE @],
                 ToLowerCase(Query))

\* A query that keeps one member and drops another.
C2_Witness ==
  /\ Len(Query) >= 2
  /\ Len(members) >= 2
  /\ filteredMembers # <<>>
  /\ Len(filteredMembers) < Len(members)

\* C3: an entry of the displayed list with the viewer's id shows the roster
\* display name followed by " (you)"; every other entry shows the roster
\* display name unchanged.
C3_OnlyViewerCarriesYouSuffix ==
  /\ FromRoster
  /\ \A j \in 1..Len(filteredMembers) :
       LET entry == filteredMembers[j]
       IN entry.displayName =
            IF entry.id = me
              THEN RosterMember(entry).displayName
                     \o <<" ", "(", "y", "o", "u", ")">>
            ELSE RosterMember(entry).displayName

\* The viewer, blocked and starred, listed next to someone else under a
\* non-trivial query.
C3_Witness ==
  /\ Len(Query) >= 2
  /\ me \in ListedIds
  /\ me \in blocked
  /\ me \in starredUserIds
  /\ \E id \in ListedIds : id # me

\* C4: no entry is both isBlocked and isStarred; a blocked and starred member
\* is isBlocked only; the viewer's entry carries neither flag.
C4_BlockedExcludesStarred ==
  \A j \in 1..Len(filteredMembers) :
    LET entry == filteredMembers[j]
    IN /\ ~(entry.isBlocked /\ entry.isStarred)
       /\ (entry.id # me /\ entry.id \in blocked /\ entry.id \in starredUserIds)
            => (entry.isBlocked /\ ~entry.isStarred)
       /\ entry.id = me => (~entry.isBlocked /\ ~entry.isStarred)

\* A listed member who is both blocked and starred, and a listed viewer who
\* is blocked and starred as well.
C4_Witness ==
  /\ \E j \in 1..Len(filteredMembers) :
       /\ filteredMembers[j].id # me
       /\ filteredMembers[j].id \in blocked \cap starredUserIds
       /\ filteredMembers[j].isBlocked
  /\ me \in ListedIds
  /\ me \in blocked \cap starredUserIds
----------------------------------------------------------------------------
(* Properties of the treasury dialog *)

EthFamily == { <<"e", "t", "h">>, <<"w", "e", "t", "h">>,
               <<"s", "t", "e", "t", "h">>, <<"r", "e", "t", "h">>,
               <<"w", "s", "t", "e", "t", "h">> }

\* The total amount the requested transfers move in the given currencies.
RECURSIVE TotalOf(_, _)
TotalOf(transfers, currencies) ==
  IF transfers = <<>> THEN 0
  ELSE (IF Head(transfers).currency \in currencies
          THEN Head(transfers).amount ELSE 0)
       + TotalOf(Tail(transfers), currencies)

\* The token ids the requested transfers move, in order.
RECURSIVE TokensOf(_)
TokensOf(transfers) ==
  IF transfers = <<>> THEN <<>>
  ELSE Head(transfers).tokens \o TokensOf(Tail(transfers))

Requests(currencies) ==
  \E i \in 1..Len(requested) : requested[i].currency \in currencies

EntriesOf(currencies) ==
  {j \in 1..Len(Get(assetsDeployed)) :
     Get(assetsDeployed)[j].currency \in currencies}

\* C5: the eth-family entries of a response are folded into exactly one "eth"
\* entry carrying the sum of their amounts, no other eth-family tag remains,
\* and the overview still shows the ETH and stETH balances as they were.
C5_EthFamilyFoldsIntoOneEthEntry ==
  ~IsNull(assetsDeployed) =>
    /\ \A c \in EthFamily : EndsWith(c, Eth)
    /\ EntriesOf(EthFamily \ {Eth}) = {}
    /\ Cardinality(EntriesOf({Eth})) = IF Requests(EthFamily) THEN 1 ELSE 0
    /\ \A j \in EntriesOf({Eth}) :
         Get(assetsDeployed)[j].amount = TotalOf(requested, EthFamily)
    /\ balances["treasuryEth"] = Some(5)
    /\ balances["treasurySteth"] = Some(6)
    /\ ~View.error =>
         /\ View.overview[1] = [label |-> "ETH", value |-> Some(5),
                                hint |-> None]
         /\ View.overview[2] = [label |-> "stETH", value |-> Some(6),
                                hint |-> None]

\* An eth transfer of 2 and an steth transfer of 1 merged into eth 3.
C5_Witness ==
  /\ Len(requested) = 2
  /\ requested[1].currency = Eth
  /\ requested[2].currency = Steth
  /\ assetsDeployed = Some(<<[currency |-> Eth, amount |-> 3,
                              tokens |-> <<>>]>>)

RECURSIVE MulCarry(_, _, _)
MulCarry(d, m, carry) ==
  IF d = <<>> THEN (IF carry = 0 THEN <<>> ELSE Digits(carry))
  ELSE LET p == d[Len(d)] * m + carry
       IN MulCarry(SubSeq(d, 1, Len(d) - 1), m, p \div 10) \o <<p % 10>>

BigMulSmall(d, m) == Normalize(MulCarry(d, m, 0))

\* d + a for a small natural a.
BigAddSmall(d, a) == Normalize(MulCarry(d, 1, a))

\* q is the integer quotient of a * 10^23 by r.
IsScaledQuotient(q, a, r) ==
  \E rem \in 0..(r - 1) :
    BigAddSmall(BigMulSmall(q, r), rem)
      = Normalize(Digits(a) \o [i \in 1..23 |-> 0])

\* The hint a USDC row must carry for the amount a.
HintIsRight(hint, a) ==
  IF IsNull(rate) THEN IsNull(hint)
  ELSE ~IsNull(hint) /\ IsScaledQuotient(Get(hint), a, Get(rate))

\* C7: with the rate R resolved every USDC row carries the hint
\* A * 10^23 / R (integer division); with R unresolved no USDC row has a hint.
C7_UsdcHintIsScaledQuotient ==
  ~View.error =>
    /\ \A i \in 1..Len(View.overview) :
         (View.overview[i].label = "USDC" /\ ~IsNull(View.overview[i].value))
           => HintIsRight(View.overview[i].hint, Get(View.overview[i].value))
    /\ (~IsNull(View.activity) /\ ~IsNull(Get(View.activity).assets)) =>
         LET rows == Get(Get(View.activity).assets)
         IN \A i \in 1..Len(rows) :
              rows[i].currency = Usdc => HintIsRight(rows[i].hint, rows[i].value)

\* The rate 3 resolved, the overview USDC amount 25 and a deployed usdc
\* amount both carrying a hint.
C7_Witness ==
  /\ rate = Some(3)
  /\ ~View.error
  /\ View.overview[3].value = Some(25)
  /\ ~IsNull(View.overview[3].hint)
  /\ ~IsNull(View.activity)
  /\ ~IsNull(Get(View.activity).assets)
  /\ \E i \in 1..Len(Get(Get(View.activity).assets)) :
       /\ Get(Get(View.activity).assets)[i].currency = Usdc
       /\ ~IsNull(Get(Get(View.activity).assets)[i].hint)

Resolved(source) == ~IsNull(balances[source])

HasUnknownCurrency ==
  /\ ~IsNull(assetsDeployed)
  /\ \E j \in 1..Len(Get(assetsDeployed)) :
       Get(assetsDeployed)[j].currency \notin {Eth, Usdc, Nouns}

\* C9: when the activity section is shown and the assets-deployed list holds
\* an entry that is neither eth, usdc nor nouns, the render throws and
\* nothing of the list is rendered.
C9_UnknownCurrencyThrows ==
  (showRecentActivity /\ HasUnknownCurrency) =>
    (View.error /\ IsNull(View.activity))

\* A dai transfer next to a known one, with the activity section enabled.
C9_Witness ==
  /\ showRecentActivity
  /\ HasUnknownCurrency
  /\ Len(Get(assetsDeployed)) = 2
  /\ View.error

\* C10 as stated: while the feature flag is disabled no subgraph query is
\* issued and neither aggregate is computed or displayed.
C10_NothingFetchedWhileDisabled ==
  ~showRecentActivity =>
    /\ inflight = {}
    /\ IsNull(auctionProceeds)
    /\ IsNull(assetsDeployed)
    /\ IsNull(View.activity)

\* C10 amended: the aggregates are displayed only while the feature flag is
\* enabled (they are fetched and computed whatever the flag is); while it is
\* enabled the section shows the aggregates as stored.
C10_DisplayedOnlyWhileEnabled ==
  /\ ~showRecentActivity => (~View.error /\ IsNull(View.activity))
  /\ (showRecentActivity /\ ~View.error) =>
       /\ ~IsNull(View.activity)
       /\ Get(View.activity).proceeds = auctionProceeds
       /\ IsNull(Get(View.activity).assets) <=> IsNull(assetsDeployed)

\* Both aggregates computed while the flag is disabled.
C10_Witness ==
  /\ ~showRecentActivity
  /\ ~IsNull(auctionProceeds)
  /\ ~IsNull(assetsDeployed)
  /\ Get(assetsDeployed) # <<>>
  /\ inflight = {}

Pending(hook) == {req \in inflight : req.hook = hook}

\* C11: once every request of a hook has resolved, the aggregate the hook
\* holds is the result of the request issued for the latest dependency key,
\* whatever the order the responses came in.
C11_LatestKeyWinsOnceSettled ==
  /\ (Pending("auctions") = {} /\ ~IsNull(auctionProceeds))
       => storedFor.auctions = Some(activityDayCount)
  /\ (Pending("proposals") = {} /\ ~IsNull(assetsDeployed))
       => storedFor.proposals = Some(activityDayCount)

ListFor(query) ==
  ComputeFilteredMembers(query, members, me, blocked, starredUserIds)

\* C12: the displayed list is always the one computed from the deferred
\* query; the deferred query changes only to the value the raw input holds
\* at that moment; and once the raw input stops changing, the deferred query
\* ends up equal to it and the displayed list is the one of that final query.
C12_ListFollowsDeferredQuery ==
  /\ [](filteredMembers = ListFor(deferredPendingInput))
  /\ [][deferredPendingInput' # deferredPendingInput
          => (deferredPendingInput' = pendingInput /\ UNCHANGED pendingInput)]_vars
  /\ <>[][pendingInput' = pendingInput]_vars
       => <>[](/\ deferredPendingInput = pendingInput
               /\ filteredMembers = ListFor(pendingInput))

\* The deferred query lagging a typed non-trivial query: the list shown is
\* not the one the raw input would give.
C12_Witness ==
  /\ deferredPendingInput # pendingInput
  /\ Len(Trim(pendingInput)) >= 2
  /\ deferredPendingInput # <<>>
  /\ filteredMembers = ListFor(deferredPendingInput)
  /\ filteredMembers # ListFor(pendingInput)

NounUrls == {<<"noun", seed>> : seed \in {1, 2}}

\* C13: with the ENS avatar resolved a single avatar showing the ENS url is
\* rendered, never the stack, a noun avatar or the fallback image; the stack
\* is rendered only without an ENS avatar and with more than one noun url,
\* and shows at most min(number of urls, maxStackCount) avatars.
C13_EnsAvatarTakesPrecedence ==
  /\ ~IsNull(ensAvatarUrl) =>
       /\ AvatarView.kind = "avatar"
       /\ AvatarView.url = ensAvatarUrl
       /\ Get(AvatarView.url) \notin NounUrls \cup {<<"fallback", 1>>}
  /\ AvatarView.kind = "stack" =>
       /\ IsNull(ensAvatarUrl)
       /\ ~IsNull(avatarUrls)
       /\ Len(Get(avatarUrls)) > 1
       /\ Len(AvatarView.urls) <= Len(Get(avatarUrls))
       /\ Len(AvatarView.urls) <= avatarProps.maxStackCount
       /\ \A i \in 1..Len(AvatarView.urls) :
            \E k \in 1..Len(Get(avatarUrls)) :
              AvatarView.urls[i] = Get(avatarUrls)[k]

\* The noun urls of several nouns stored first, the ENS avatar resolved
\* after them, a fallback image given.
C13_Witness ==
  /\ ~IsNull(ensAvatarUrl)
  /\ ~IsNull(avatarUrls)
  /\ Len(Get(avatarUrls)) > 1
  /\ ~IsNull(avatarProps.fallbackImageUrl)
  /\ AvatarView.kind = "avatar"
====
